---- MODULE Spec2Model ----
(***************************************************************************)
(* Model of the mobile navigation drawer of                                *)
(* src/components/sections/Navigation.tsx (React 18 function component).   *)
(*                                                                         *)
(* One action is one DOM event: the handlers it reaches, the browser's     *)
(* default action, the React state flush and the effects of the commit.    *)
(* React flushes the updates of a discrete event (click, keydown) before   *)
(* the next event is dispatched, so no event observes a half-rendered      *)
(* component.  CSS visibility (lg:hidden / hidden lg:flex) is not          *)
(* modelled: every rendered control can receive events.                    *)
(*                                                                         *)
(* Button/handleClick (src/components/ui/Button.tsx) and the state of      *)
(* ErrorBoundary (src/components/ErrorBoundary.tsx) are modelled beside    *)
(* it, each under a specification of its own.                              *)
(***************************************************************************)
EXTENDS Integers, Sequences, FiniteSets, TLC

(* ------------------------------ bounds --------------------------------- *)
MaxLinks == 2       \* longest `links` prop
MaxBatch == 2       \* trigger activations handled in one React batch
MaxOpens == 2       \* Closed -> Open transitions explored
MaxToggles == 3     \* trigger activations in one uninterrupted run
MaxTabs == 6        \* Tab presses counted after the menu opened
MaxErrors == 2      \* errors thrown by the children of one ErrorBoundary

(* ------------------------------ values --------------------------------- *)
Hrefs == { <<"#", "f">>, <<"#", "x">>, <<"/", "a">> }
DocIds == { <<"f">>, <<"features">>, <<"contact">> }   \* ids in the document
NoHref == <<"-">>
Sinks == {"absent", "ok", "throws"}   \* window.dataLayer during a click
LandingLinks ==
  << <<"#", "features">>, <<"#", "products">>, <<"#", "how-it-works">>,
     <<"#", "contact">> >>
LandingCtaHref == <<"#", "contact">>
CtaHrefs == { <<>>, <<"#", "c">> }   \* ctaButton.href: '' or an anchor
AnalyticsIds == { "", "nav-cta", "hero-primary-cta" }   \* '' is undefined
AnalyticsLocations == { "", "navigation" }              \* '' is undefined
SentryStates == {"absent", "present"}   \* window.Sentry during a catch
Null == <<"null">>
Errors == { <<"error", "e1">>, <<"error", "e2">> }
Children == { "page", "section" }       \* the children prop of a boundary

Undefined == <<"undefined", 0>>
Body == <<"body", 0>>
Logo == <<"logo", 0>>
Trigger == <<"trigger", 0>>
DesktopCta == <<"desktopCta", 0>>
Close == <<"close", 0>>
Cta == <<"cta", 0>>
Page == <<"page", 0>>
DesktopLink(i) == <<"desktopLink", i>>
Link(i) == <<"link", i>>

RECURSIVE NoDup(_)
NoDup(s) ==
  IF Len(s) <= 1 THEN TRUE
  ELSE /\ \A i \in 2..Len(s) : s[i] # s[1]
       /\ NoDup(Tail(s))

LinkLists ==
  { s \in UNION { [1..k -> Hrefs] : k \in 0..MaxLinks } : NoDup(s) }

VARIABLES
  links,             \* the `links` prop (hrefs, in order)
  ctaHref,           \* the `ctaButton.href` prop
  panelEls,          \* the focusable descendants of the panel in the DOM
  isMobileMenuOpen,  \* useState(false)
  panelPresent,      \* the backdrop and the panel are in the DOM
  overflow,          \* document.body.style.overflow
  activeElement,     \* document.activeElement
  listeners,         \* the document's keydown listeners, in order
  triggerAttached,   \* hamburgerButtonRef.current is in the document
  lockCalls,         \* writes of 'hidden' to body overflow
  unlockCalls,       \* writes of '' to body overflow
  toggles,           \* trigger activations since the menu was last closed
                     \* by something else (or since mount)
  tabOnly,           \* only key events since the menu opened
  tabs,              \* Tab presses (no Shift) since the menu opened with
                     \* nothing else in between; -1 outside such a run
  last,              \* the event handled last and what it did
  mounted,           \* the Navigation component is mounted
  openEls,           \* the query result of the last run of the focus-trap
                     \* effect that found the menu open
  boundary,          \* ErrorBoundary: this.state
  boundaryProps,     \* ErrorBoundary: this.props (fallback given, children)
  rendered,          \* ErrorBoundary: what the last render() returned
  caughtErrors,      \* ErrorBoundary: the errors componentDidCatch received
  sentryReports      \* the calls of window.Sentry.captureException

navVars == << links, ctaHref, panelEls, isMobileMenuOpen, panelPresent,
              overflow, activeElement, listeners, triggerAttached,
              lockCalls, unlockCalls, toggles, tabOnly, tabs, mounted,
              openEls >>

boundaryVars == << boundary, boundaryProps, rendered, caughtErrors,
                   sentryReports >>

vars == << navVars, last, boundaryVars >>

(* --------------------------- pure helpers ------------------------------ *)
startsWithHash(href) == Len(href) >= 1 /\ href[1] = "#"

substring1(href) == Tail(href)

getElementById(id) == IF id \in DocIds THEN id ELSE Undefined

FocusableElementsLinksFirst(ls) ==
  [i \in 1..Len(ls) |-> Link(i)] \o <<Close>> \o <<Cta>>

(* mobileMenu.querySelectorAll('a[href], button:not([disabled]), ...')     *)
FocusableElements(ls) ==
  <<Close>> \o [i \in 1..Len(ls) |-> Link(i)] \o <<Cta>>

firstElementOf(els) == IF Len(els) = 0 THEN Undefined ELSE els[1]

lastElementOf(els) == IF Len(els) = 0 THEN Undefined ELSE els[Len(els)]

SeqToSet(s) == { s[i] : i \in 1..Len(s) }

SubSeqsOf(s) ==
  { SelectSeq(s, LAMBDA e : e \in T) : T \in SUBSET SeqToSet(s) }

IndexOf(s, e) == CHOOSE i \in 1..Len(s) : s[i] = e

(* ---------------------------- state updates ---------------------------- *)
toggleMobileMenuOpenOnly(queue) == Append(queue, "true")

toggleMobileMenu(queue) == Append(queue, "not")

closeMobileMenu(queue) == Append(queue, "false")

RECURSIVE ApplyUpdates(_, _)
ApplyUpdates(state, queue) ==
  IF queue = <<>> THEN state
  ELSE ApplyUpdates(
         CASE Head(queue) = "not" -> ~state
           [] Head(queue) = "true" -> TRUE
           [] OTHER -> FALSE,
         Tail(queue))

RECURSIVE Repeat(_, _)
Repeat(n, queue) ==
  IF n = 0 THEN queue ELSE Repeat(n - 1, toggleMobileMenu(queue))

(* ------------------------------ handlers ------------------------------- *)
(* el?.focus(): nothing for undefined, nothing for an element that is no   *)
(* longer a focusable descendant of the panel                              *)
FocusOn(el, cur) ==
  IF el = Undefined \/ el \notin SeqToSet(panelEls) THEN cur ELSE el

handleLinkClickCloseOnHit(href, queue) ==
  IF startsWithHash(href)
  THEN LET targetElement == getElementById(substring1(href))
       IN [prevented |-> TRUE,
           scrolled |-> IF targetElement # Undefined
                        THEN <<targetElement>> ELSE <<>>,
           queue |-> IF targetElement # Undefined
                     THEN Append(queue, "false") ELSE queue]
  ELSE [prevented |-> FALSE, scrolled |-> <<>>, queue |-> queue]

handleLinkClick(href, queue) ==
  IF startsWithHash(href)
  THEN LET targetElement == getElementById(substring1(href))
       IN [prevented |-> TRUE,
           scrolled |-> IF targetElement # Undefined
                        THEN <<targetElement>> ELSE <<>>,
           queue |-> Append(queue, "false")]
  ELSE [prevented |-> FALSE, scrolled |-> <<>>, queue |-> queue]

handleEscapeNoFocus(l, key, ctx) ==
  IF key = "Escape" /\ l.open
  THEN [ctx EXCEPT !.queue = closeMobileMenu(@)]
  ELSE ctx

handleEscapeUnguarded(l, key, ctx) ==
  IF key = "Escape" /\ l.open
  THEN [ctx EXCEPT !.queue = closeMobileMenu(@),
                   !.focus = IF triggerAttached THEN Trigger ELSE @,
                   !.threw = ~triggerAttached]
  ELSE ctx

handleEscapeStops(l, key, ctx) ==
  IF key = "Escape" /\ l.open
  THEN [ctx EXCEPT !.queue = closeMobileMenu(@),
                   !.focus = IF triggerAttached THEN Trigger ELSE @,
                   !.stopped = TRUE]
  ELSE ctx

handleEscape(l, key, ctx) ==
  IF key = "Escape" /\ l.open
  THEN [ctx EXCEPT !.queue = closeMobileMenu(@),
                   !.focus = IF triggerAttached THEN Trigger ELSE @]
  ELSE ctx

handleTabKeyNoWrap(l, key, shift, ctx) ==
  IF key # "Tab" THEN ctx
  ELSE IF shift
       THEN IF ctx.focus = l.first
            THEN [ctx EXCEPT !.prevented = TRUE,
                             !.focus = FocusOn(l.last, @)]
            ELSE ctx
       ELSE ctx

handleTabKeyNoPrevent(l, key, shift, ctx) ==
  IF key # "Tab" THEN ctx
  ELSE IF shift
       THEN IF ctx.focus = l.first
            THEN [ctx EXCEPT !.focus = FocusOn(l.last, @)]
            ELSE ctx
       ELSE IF ctx.focus = l.last
            THEN [ctx EXCEPT !.focus = FocusOn(l.first, @)]
            ELSE ctx

handleTabKeyAlwaysPrevent(l, key, shift, ctx) ==
  IF key # "Tab" THEN ctx
  ELSE IF shift
       THEN IF ctx.focus = l.first
            THEN [ctx EXCEPT !.prevented = TRUE,
                             !.focus = FocusOn(l.last, @)]
            ELSE [ctx EXCEPT !.prevented = TRUE]
       ELSE IF ctx.focus = l.last
            THEN [ctx EXCEPT !.prevented = TRUE,
                             !.focus = FocusOn(l.first, @)]
            ELSE [ctx EXCEPT !.prevented = TRUE]

handleTabKeyLive(l, key, shift, ctx) ==
  IF key # "Tab" THEN ctx
  ELSE IF shift
       THEN IF ctx.focus = firstElementOf(panelEls)
            THEN [ctx EXCEPT !.prevented = TRUE,
                             !.focus = FocusOn(lastElementOf(panelEls), @)]
            ELSE ctx
       ELSE IF ctx.focus = lastElementOf(panelEls)
            THEN [ctx EXCEPT !.prevented = TRUE,
                             !.focus = FocusOn(firstElementOf(panelEls), @)]
            ELSE ctx

handleTabKey(l, key, shift, ctx) ==
  IF key # "Tab" THEN ctx
  ELSE IF shift
       THEN IF ctx.focus = l.first
            THEN [ctx EXCEPT !.prevented = TRUE,
                             !.focus = FocusOn(l.last, @)]
            ELSE ctx
       ELSE IF ctx.focus = l.last
            THEN [ctx EXCEPT !.prevented = TRUE,
                             !.focus = FocusOn(l.first, @)]
            ELSE ctx

(* document.dispatchEvent: the listeners run in registration order         *)
RECURSIVE Dispatch(_, _, _, _)
Dispatch(ls, key, shift, ctx) ==
  IF ls = <<>> THEN ctx
  ELSE Dispatch(Tail(ls), key, shift,
         IF Head(ls).kind = "handleEscape"
         THEN handleEscape(Head(ls), key, ctx)
         ELSE handleTabKey(Head(ls), key, shift, ctx))

handleClickIgnoresDisabled(disabled, hasAnalyticsId, hasOnClick, hasHref, sink) ==
  IF hasAnalyticsId /\ sink # "absent" /\ sink = "throws"
  THEN [pushed |-> 0, called |-> FALSE, threw |-> TRUE]
  ELSE [pushed |-> IF hasAnalyticsId /\ sink # "absent" THEN 1 ELSE 0,
        called |-> hasOnClick /\ ~hasHref,
        threw |-> FALSE]

(* Button/handleClick: what one click does, for a sink that is absent     *)
(* (window.dataLayer undefined), ok, or whose push throws                  *)
handleClick(disabled, hasAnalyticsId, hasOnClick, hasHref, sink) ==
  IF disabled
  THEN [pushed |-> 0, called |-> FALSE, threw |-> FALSE]
  ELSE IF hasAnalyticsId /\ sink # "absent" /\ sink = "throws"
       THEN [pushed |-> 0, called |-> FALSE, threw |-> TRUE]
       ELSE [pushed |-> IF hasAnalyticsId /\ sink # "absent" THEN 1 ELSE 0,
             called |-> hasOnClick /\ ~hasHref,
             threw |-> FALSE]

ctaClickEventNoLocation(analyticsId, analyticsLocation) ==
  [event |-> "cta_click", category |-> "engagement", action |-> "click",
   label |-> analyticsId, location |-> "unknown"]

(* the object Button/handleClick pushes to window.dataLayer                *)
ctaClickEvent(analyticsId, analyticsLocation) ==
  [event |-> "cta_click", category |-> "engagement", action |-> "click",
   label |-> analyticsId,
   location |-> IF analyticsLocation = "" THEN "unknown"
                ELSE analyticsLocation]

(* ---------------------------- ErrorBoundary ---------------------------- *)
componentStack(error) == <<"componentStack", error[2]>>

constructorState == [hasError |-> FALSE, error |-> Null, errorInfo |-> Null]

getDerivedStateFromError(state, error) ==
  [state EXCEPT !.hasError = TRUE, !.error = error]

(* the calls of Sentry.captureException one caught error makes             *)
reportToSentry(error, errorInfo, sentry) ==
  IF sentry = "present"
  THEN << [error |-> error, componentStack |-> errorInfo,
           errorBoundary |-> TRUE] >>
  ELSE <<>>

componentDidCatch(state, error, errorInfo, sentry) ==
  [state |-> [state EXCEPT !.errorInfo = errorInfo],
   reports |-> reportToSentry(error, errorInfo, sentry)]

handleResetKeepsError(state) ==
  [state EXCEPT !.hasError = FALSE, !.errorInfo = Null]

handleReset(state) ==
  [state EXCEPT !.hasError = FALSE, !.error = Null, !.errorInfo = Null]

render(state, props) ==
  IF state.hasError
  THEN IF props.fallback THEN <<"props.fallback">> ELSE <<"Try Again">>
  ELSE <<"children", props.children>>

(* ------------------------------- effects ------------------------------- *)
(* firstElement?.focus()                                                   *)
FocusFirstElementUnguarded(firstElement, focus) ==
  [focus |-> IF firstElement # Undefined THEN firstElement ELSE focus,
   threw |-> firstElement = Undefined]

FocusFirstElementNever(firstElement, focus) ==
  [focus |-> focus, threw |-> FALSE]

FocusFirstElement(firstElement, focus) ==
  [focus |-> IF firstElement # Undefined THEN firstElement ELSE focus,
   threw |-> FALSE]

EscapeListenerStale(open) ==
  [kind |-> "handleEscape", open |-> TRUE,
   first |-> Undefined, last |-> Undefined]

EscapeListener(open) ==
  [kind |-> "handleEscape", open |-> open,
   first |-> Undefined, last |-> Undefined]

TabListener(els) ==
  [kind |-> "handleTabKey", open |-> TRUE,
   first |-> firstElementOf(els), last |-> lastElementOf(els)]

(* the keydown listeners after the effects of a commit to `open`: the      *)
(* cleanups remove the previous run's handlers, then each effect attaches  *)
KeydownEffectsNoCleanup(ls, open, els) ==
  ls \o <<EscapeListener(open)>>
     \o (IF open THEN <<TabListener(els)>> ELSE <<>>)

KeydownEffectsKeepsEscape(ls, open, els) ==
  SelectSeq(ls, LAMBDA l : l.kind # "handleTabKey")
    \o <<EscapeListener(open)>>
    \o (IF open THEN <<TabListener(els)>> ELSE <<>>)

KeydownEffects(ls, open, els) ==
  SelectSeq(ls, LAMBDA l : l.kind \notin {"handleEscape", "handleTabKey"})
    \o <<EscapeListener(open)>>
    \o (IF open THEN <<TabListener(els)>> ELSE <<>>)

(* the writes to body overflow of a commit: cleanup, then the effect       *)
BodyScrollEffectNoCleanup(open) ==
  <<IF open THEN "hidden" ELSE "">>

BodyScrollEffectCleanupLast(open) ==
  <<IF open THEN "hidden" ELSE "">> \o <<"">>

BodyScrollEffect(open) ==
  <<"">> \o <<IF open THEN "hidden" ELSE "">>

CountOf(writes, v) == Cardinality({ i \in 1..Len(writes) : writes[i] = v })

(* deps [isMobileMenuOpen]: the effects re-run when the state changed      *)
EffectsRunAlways(old, new) == TRUE

EffectsRun(old, new) == old # new

(* --------------------------- native behaviour -------------------------- *)
NavOrder ==
  <<Logo>> \o [i \in 1..Len(links) |-> DesktopLink(i)] \o <<DesktopCta>>
    \o (IF triggerAttached THEN <<Trigger>> ELSE <<>>)
    \o (IF panelPresent THEN panelEls ELSE <<>>)

(* sequential focus navigation of the browser for an unprevented Tab       *)
NativeTab(from, shift) ==
  LET order == NavOrder
      n == Len(order)
  IN IF from \in SeqToSet(order)
     THEN LET i == IndexOf(order, from)
          IN IF shift
             THEN IF i > 1 THEN {order[i - 1]} ELSE {Page}
             ELSE IF i < n THEN {order[i + 1]} ELSE {Page}
     ELSE IF from = Page
          THEN IF shift THEN {Page, order[n]} ELSE {Page, order[1]}
          ELSE IF shift THEN {Page} ELSE {order[1]}

(* ------------------------------- commit -------------------------------- *)
(* The end of an event: React applies the queued updates, re-renders and   *)
(* runs the effects whose dependency changed.                              *)
Commit(queue, focus, rec) ==
  LET newOpen == ApplyUpdates(isMobileMenuOpen, queue)
      ran == EffectsRun(isMobileMenuOpen, newOpen)
      els == panelEls
      writes == IF ran THEN BodyScrollEffect(newOpen) ELSE <<>>
      ff == FocusFirstElement(firstElementOf(els), focus)
  IN /\ mounted
     /\ isMobileMenuOpen' = newOpen
     /\ openEls' = IF ran /\ newOpen THEN els ELSE openEls
     /\ panelPresent' = (panelPresent \/ newOpen)
     /\ listeners' = IF ran THEN KeydownEffects(listeners, newOpen, els)
                     ELSE listeners
     /\ activeElement' = IF ran /\ newOpen THEN ff.focus ELSE focus
     /\ overflow' = IF writes = <<>> THEN overflow ELSE writes[Len(writes)]
     /\ lockCalls' = lockCalls + CountOf(writes, "hidden")
     /\ unlockCalls' = unlockCalls + CountOf(writes, "")
     /\ tabOnly' = IF newOpen /\ ~isMobileMenuOpen THEN TRUE
                   ELSE IF rec.ev = "keydown" THEN tabOnly ELSE FALSE
     /\ toggles' = IF rec.ev = "trigger" THEN toggles + rec.n
                   ELSE IF newOpen THEN toggles ELSE 0
     /\ tabs' = IF newOpen /\ ~isMobileMenuOpen THEN 0
               ELSE IF /\ newOpen /\ rec.ev = "keydown" /\ rec.key = "Tab"
                       /\ ~rec.shift /\ tabs >= 0 /\ tabs < MaxTabs
                    THEN tabs + 1
                    ELSE -1
     /\ last' = [rec EXCEPT !.wasOpen = isMobileMenuOpen,
                            !.wasFocus = activeElement,
                            !.wasTabs = tabs,
                            !.effectsRan = ran,
                            !.threw = rec.threw \/ (ran /\ newOpen /\ ff.threw),
                            !.locks = CountOf(writes, "hidden"),
                            !.unlocks = CountOf(writes, "")]
     /\ UNCHANGED << links, ctaHref, panelEls, triggerAttached, mounted,
                     boundaryVars >>

Rec(ev) ==
  [ev |-> ev, key |-> "-", shift |-> FALSE, n |-> 0, href |-> NoHref,
   wasOpen |-> FALSE, wasFocus |-> Body, wasTabs |-> -1,
   prevented |-> FALSE, handlerFocus |-> Body, observed |-> FALSE,
   threw |-> FALSE, sink |-> "-", button |-> <<>>, pushed |-> 0,
   called |-> FALSE, events |-> <<>>, wasError |-> FALSE,
   scrolled |-> <<>>, effectsRan |-> FALSE, locks |-> 0, unlocks |-> 0]

(* ------------------------------- actions ------------------------------- *)
InitBoundary(props) ==
  /\ boundaryProps = props
  /\ boundary = constructorState
  /\ rendered = render(constructorState, props)
  /\ caughtErrors = <<>>
  /\ sentryReports = <<>>

InitNavigation ==
  /\ isMobileMenuOpen = FALSE
  /\ panelPresent = FALSE
  /\ overflow = ""
  /\ activeElement = Body
  /\ listeners = <<EscapeListener(FALSE)>>
  /\ triggerAttached = TRUE
  /\ lockCalls = 0
  /\ unlockCalls = 1
  /\ toggles = 0
  /\ tabOnly = FALSE
  /\ tabs = -1
  /\ last = Rec("mount")
  /\ mounted = TRUE
  /\ openEls = <<>>

InitRest ==
  /\ InitNavigation
  /\ InitBoundary([fallback |-> FALSE, children |-> "page"])

Init ==
  /\ links \in LinkLists
  /\ ctaHref \in CtaHrefs
  /\ panelEls = FocusableElements(links)
  /\ InitRest

(* click on the hamburger button, n activations in one batch               *)
TriggerClick(n) ==
  /\ triggerAttached
  /\ toggles + n <= MaxToggles
  /\ LET queue == Repeat(n, <<>>)
     IN /\ (ApplyUpdates(isMobileMenuOpen, queue) /\ ~isMobileMenuOpen)
             => lockCalls < MaxOpens
        /\ Commit(queue, Trigger, [Rec("trigger") EXCEPT !.n = n])

(* click on the close button of the panel                                  *)
CloseButtonClick ==
  /\ panelPresent
  /\ Close \in SeqToSet(panelEls)
  /\ Commit(closeMobileMenu(<<>>), Close, Rec("closeButton"))

(* click on the backdrop, which is not focusable                           *)
BackdropClick ==
  /\ panelPresent
  /\ Commit(closeMobileMenu(<<>>), Body, Rec("backdrop"))

(* click on the i-th link of the panel                                     *)
MobileLinkClick(i) ==
  /\ panelPresent
  /\ i \in 1..Len(links)
  /\ Link(i) \in SeqToSet(panelEls)
  /\ LET r == handleLinkClick(links[i], <<>>)
     IN Commit(r.queue, Link(i),
               [Rec("mobileLink") EXCEPT !.href = links[i],
                                         !.prevented = r.prevented,
                                         !.scrolled = r.scrolled])

(* click on the i-th link of the header                                    *)
DesktopLinkClick(i) ==
  /\ i \in 1..Len(links)
  /\ LET r == handleLinkClick(links[i], <<>>)
     IN Commit(r.queue, DesktopLink(i),
               [Rec("desktopLink") EXCEPT !.href = links[i],
                                          !.prevented = r.prevented,
                                          !.scrolled = r.scrolled])

(* click on the CTA Button of the panel: its onClick wrapper calls         *)
(* ctaButton.onClick?.() and closeMobileMenu()                             *)
MobileCtaClick(sink) ==
  /\ panelPresent
  /\ Cta \in SeqToSet(panelEls)
  /\ LET r == handleClick(FALSE, TRUE, TRUE, ctaHref # <<>>, sink)
     IN Commit(IF r.called THEN closeMobileMenu(<<>>) ELSE <<>>, Cta,
               [Rec("mobileCta") EXCEPT
                  !.sink = sink,
                  !.events = IF r.pushed = 1
                             THEN <<ctaClickEvent("mobile-nav-cta",
                                                  "mobile-navigation")>>
                             ELSE <<>>,
                  !.button = <<FALSE, TRUE, TRUE, ctaHref # <<>> >>,
                  !.href = ctaHref,
                  !.pushed = r.pushed, !.called = r.called,
                  !.threw = r.threw])

(* keydown on the document                                                 *)
KeyDown(key, shift) ==
  LET ctx == Dispatch(listeners, key, shift,
                      [queue |-> <<>>, focus |-> activeElement,
                       prevented |-> FALSE, stopped |-> FALSE,
                       threw |-> FALSE])
  IN \E f \in (IF key = "Tab" /\ ~ctx.prevented
               THEN NativeTab(ctx.focus, shift) ELSE {ctx.focus}) :
       Commit(ctx.queue, f,
              [Rec("keydown") EXCEPT !.key = key, !.shift = shift,
                                     !.prevented = ctx.prevented,
                                     !.handlerFocus = ctx.focus,
                                     !.observed = ~ctx.stopped,
                                     !.threw = ctx.threw])

(* AnimatePresence removes the backdrop and the panel after the exit       *)
(* animation; focus inside the removed subtree falls back to the body      *)
ExitComplete ==
  /\ mounted
  /\ panelPresent
  /\ ~isMobileMenuOpen
  /\ panelPresent' = FALSE
  /\ activeElement' = IF activeElement \in SeqToSet(FocusableElements(links))
                      THEN Body ELSE activeElement
  /\ tabs' = -1
  /\ last' = [Rec("exitComplete") EXCEPT !.wasOpen = isMobileMenuOpen,
                                         !.wasFocus = activeElement,
                                         !.wasTabs = tabs]
  /\ UNCHANGED << links, ctaHref, panelEls, isMobileMenuOpen, overflow,
                  listeners, triggerAttached, lockCalls, unlockCalls,
                  toggles, tabOnly, mounted, openEls, boundaryVars >>

(* the hamburger button leaves or re-enters the document                   *)
SetTriggerAttached(b) ==
  /\ mounted
  /\ triggerAttached # b
  /\ triggerAttached' = b
  /\ activeElement' = IF ~b /\ activeElement = Trigger
                      THEN Body ELSE activeElement
  /\ tabs' = -1
  /\ last' = [Rec("triggerAttached") EXCEPT !.wasOpen = isMobileMenuOpen,
                                            !.wasFocus = activeElement,
                                            !.wasTabs = tabs]
  /\ UNCHANGED << links, ctaHref, panelEls, isMobileMenuOpen, panelPresent,
                  overflow, listeners, lockCalls, unlockCalls, toggles,
                  tabOnly, mounted, openEls, boundaryVars >>

(* another script, or a re-render with other props, changes which         *)
(* controls of the panel the trap's selector matches                       *)
PanelMutate(els) ==
  /\ mounted
  /\ els # panelEls
  /\ panelEls' = els
  /\ activeElement' = IF /\ activeElement \in SeqToSet(panelEls)
                         /\ activeElement \notin SeqToSet(els)
                      THEN Body ELSE activeElement
  /\ tabs' = -1
  /\ last' = [Rec("panelMutate") EXCEPT !.wasOpen = isMobileMenuOpen,
                                        !.wasFocus = activeElement,
                                        !.wasTabs = tabs]
  /\ UNCHANGED << links, ctaHref, isMobileMenuOpen, panelPresent, overflow,
                  listeners, triggerAttached, lockCalls, unlockCalls,
                  toggles, tabOnly, mounted, openEls, boundaryVars >>

(* the cleanups of the two keydown effects                                 *)
UnmountKeydownCleanupsEscapeOnly(ls) ==
  SelectSeq(ls, LAMBDA l : l.kind # "handleEscape")

UnmountKeydownCleanups(ls) ==
  SelectSeq(ls, LAMBDA l : l.kind \notin {"handleEscape", "handleTabKey"})

(* the cleanup of the body-scroll effect                                   *)
UnmountBodyScrollCleanup == <<"">>

(* React unmounts the component: every effect's cleanup runs and the       *)
(* component's DOM, the panel included, leaves the document                *)
Unmount ==
  /\ mounted
  /\ mounted' = FALSE
  /\ listeners' = UnmountKeydownCleanups(listeners)
  /\ overflow' = IF UnmountBodyScrollCleanup = <<>> THEN overflow
                 ELSE UnmountBodyScrollCleanup[Len(UnmountBodyScrollCleanup)]
  /\ unlockCalls' = unlockCalls + CountOf(UnmountBodyScrollCleanup, "")
  /\ panelPresent' = FALSE
  /\ triggerAttached' = FALSE
  /\ activeElement' = IF activeElement \in {Page, Body}
                      THEN activeElement ELSE Body
  /\ tabs' = -1
  /\ last' = [Rec("unmount") EXCEPT !.wasOpen = isMobileMenuOpen,
                                    !.wasFocus = activeElement,
                                    !.wasTabs = tabs,
                                    !.unlocks =
                                      CountOf(UnmountBodyScrollCleanup, "")]
  /\ UNCHANGED << links, ctaHref, panelEls, isMobileMenuOpen, lockCalls,
                  toggles, tabOnly, openEls, boundaryVars >>

(* click on a Button with the given props                                  *)
ButtonClick(disabled, analyticsId, analyticsLocation, hasOnClick, hasHref, sink) ==
  /\ LET r == handleClick(disabled, analyticsId # "", hasOnClick, hasHref,
                          sink)
     IN last' = [Rec("button") EXCEPT
                   !.sink = sink,
                   !.button = <<disabled, analyticsId, analyticsLocation,
                                hasOnClick, hasHref>>,
                   !.pushed = r.pushed, !.called = r.called,
                   !.threw = r.threw,
                   !.events = IF r.pushed = 1
                              THEN <<ctaClickEvent(analyticsId,
                                                   analyticsLocation)>>
                              ELSE <<>>]
  /\ UNCHANGED << navVars, boundaryVars >>

(* a descendant of the boundary throws while rendering                     *)
ChildThrows(error, sentry) ==
  /\ ~boundary.hasError
  /\ Len(caughtErrors) < MaxErrors
  /\ LET derived == getDerivedStateFromError(boundary, error)
         caught == componentDidCatch(derived, error, componentStack(error),
                                     sentry)
     IN /\ boundary' = caught.state
        /\ sentryReports' = sentryReports \o caught.reports
        /\ rendered' = render(caught.state, boundaryProps)
  /\ caughtErrors' = Append(caughtErrors, error)
  /\ last' = [Rec("childThrows") EXCEPT !.sink = sentry,
                                        !.wasError = boundary.hasError]
  /\ UNCHANGED << navVars, boundaryProps >>

(* click on 'Try Again', which only the default fallback renders           *)
TryAgainClick ==
  /\ rendered = <<"Try Again">>
  /\ boundary' = handleReset(boundary)
  /\ rendered' = render(boundary', boundaryProps)
  /\ last' = [Rec("handleReset") EXCEPT !.wasError = boundary.hasError]
  /\ UNCHANGED << navVars, boundaryProps, caughtErrors, sentryReports >>

(* the parent renders the boundary again, with other children              *)
ParentRender(children) ==
  /\ children # boundaryProps.children
  /\ boundaryProps' = [boundaryProps EXCEPT !.children = children]
  /\ rendered' = render(boundary, boundaryProps')
  /\ last' = [Rec("parentRender") EXCEPT !.wasError = boundary.hasError]
  /\ UNCHANGED << navVars, boundary, caughtErrors, sentryReports >>

Next ==
  \/ \E n \in 1..MaxBatch : TriggerClick(n)
  \/ CloseButtonClick
  \/ BackdropClick
  \/ \E i \in 1..Len(links) : MobileLinkClick(i)
  \/ \E i \in 1..Len(links) : DesktopLinkClick(i)
  \/ \E sink \in Sinks : MobileCtaClick(sink)
  \/ \E key \in {"Escape", "Tab", "Enter"}, shift \in BOOLEAN :
       KeyDown(key, shift)
  \/ ExitComplete
  \/ \E b \in BOOLEAN : SetTriggerAttached(b)

Spec == Init /\ [][Next]_vars

(* the component as the landing page mounts it                             *)
InitLanding ==
  /\ links = LandingLinks
  /\ ctaHref = LandingCtaHref
  /\ panelEls = FocusableElements(links)
  /\ InitRest

SpecLanding == InitLanding /\ [][Next]_vars

(* the component over a panel whose query result is an input: any of the   *)
(* rendered controls may be missing from it (removed or disabled by        *)
(* another script), down to an empty result                                *)
InitAnyPanel ==
  /\ links \in { s \in LinkLists : Len(s) <= 1 }
  /\ ctaHref \in CtaHrefs
  /\ panelEls \in SubSeqsOf(FocusableElements(links))
  /\ InitRest

SpecAnyPanel == InitAnyPanel /\ [][Next]_vars

(* the component over a panel whose focusable descendants change while it  *)
(* is mounted                                                              *)
InitPanelChange ==
  /\ links = << <<"#", "f">> >>
  /\ ctaHref = <<>>
  /\ panelEls = FocusableElements(links)
  /\ InitRest

NextPanelChange ==
  \/ Next
  \/ \E els \in SubSeqsOf(FocusableElements(links)) : PanelMutate(els)

SpecPanelChange == InitPanelChange /\ [][NextPanelChange]_vars

(* the component until its parent unmounts it                              *)
NextLifecycle ==
  \/ Next
  \/ Unmount

SpecLifecycle == Init /\ [][NextLifecycle]_vars

(* one Button under every combination of its props and of the sink         *)
NextButton ==
  \E disabled \in BOOLEAN, analyticsId \in AnalyticsIds,
     analyticsLocation \in AnalyticsLocations, hasOnClick \in BOOLEAN,
     hasHref \in BOOLEAN, sink \in Sinks :
    ButtonClick(disabled, analyticsId, analyticsLocation, hasOnClick,
                hasHref, sink)

SpecButton == InitLanding /\ [][NextButton]_vars

(* one ErrorBoundary with or without a fallback prop                       *)
InitErrorBoundary ==
  /\ links = LandingLinks
  /\ ctaHref = LandingCtaHref
  /\ panelEls = FocusableElements(links)
  /\ InitNavigation
  /\ \E fallback \in BOOLEAN, children \in Children :
       InitBoundary([fallback |-> fallback, children |-> children])

NextErrorBoundary ==
  \/ \E error \in Errors, sentry \in SentryStates : ChildThrows(error, sentry)
  \/ TryAgainClick
  \/ \E children \in Children : ParentRender(children)

SpecErrorBoundary == InitErrorBoundary /\ [][NextErrorBoundary]_vars

TypeOK ==
  /\ links \in LinkLists
  /\ isMobileMenuOpen \in BOOLEAN
  /\ panelPresent \in BOOLEAN
  /\ overflow \in {"", "hidden"}
  /\ lockCalls \in 0..MaxOpens
  /\ toggles \in 0..MaxToggles
(* ======================================================================= *)
(* Properties                                                              *)
(* ======================================================================= *)
PanelSet == SeqToSet(FocusableElements(links))

IsEscape == last.ev = "keydown" /\ last.key = "Escape"

(* C1: Escape always closes.  A document keydown with key 'Escape' while   *)
(* the menu is open leaves isMobileMenuOpen false and, when the trigger is *)
(* attached, focus on the hamburger button.                                *)
C1_EscapeAlwaysCloses ==
  (IsEscape /\ last.wasOpen) =>
    /\ ~isMobileMenuOpen
    /\ triggerAttached => activeElement = Trigger

C1_Witness ==
  /\ IsEscape /\ last.wasOpen /\ triggerAttached
  /\ last.wasFocus \in PanelSet
  /\ activeElement = Trigger

(* C2: whichever way the open menu is dismissed (Escape, backdrop, close   *)
(* button, link of the panel), once it is closed focus is on the trigger   *)
(* (when attached) and body overflow is ''.                                *)
C2_DismissRestoresFocusAndScroll ==
  ( /\ IsEscape \/ last.ev \in {"backdrop", "closeButton", "mobileLink"}
    /\ last.wasOpen
    /\ ~isMobileMenuOpen )
  => /\ overflow = ""
     /\ triggerAttached => activeElement = Trigger

(* C3 (as stated): at every point where the menu is closed the number of   *)
(* 'hidden' writes equals the number of '' writes.                         *)
C3_LockPairing ==
  ~isMobileMenuOpen => lockCalls = unlockCalls

(* C3 (amended): every Closed -> Open commit writes 'hidden' exactly once; *)
(* the '' writes are not paired with them: mount writes one, every commit  *)
(* that opens writes one (cleanup) and every commit that closes two, so    *)
(* closed means overflow '' and unlockCalls = 3 * lockCalls + 1, and open  *)
(* means overflow 'hidden' and unlockCalls = 3 * lockCalls - 1.            *)
C3_LockWrites ==
  /\ ~isMobileMenuOpen => (overflow = "" /\ unlockCalls = 3 * lockCalls + 1)
  /\ isMobileMenuOpen => (overflow = "hidden"
                          /\ unlockCalls = 3 * lockCalls - 1)
  /\ (isMobileMenuOpen /\ ~last.wasOpen) => last.locks = 1
  /\ (~isMobileMenuOpen /\ last.wasOpen) =>
       (last.locks = 0 /\ last.unlocks = 2)

C3_Witness ==
  ~isMobileMenuOpen /\ last.wasOpen /\ lockCalls = 2 /\ unlockCalls = 7

(* C4: activating a link of the open panel whose href does not start with  *)
(* '#' does not call preventDefault and closes the menu.                   *)
C4_NonAnchorLinkCloses ==
  (last.ev = "mobileLink" /\ last.wasOpen /\ ~startsWithHash(last.href)) =>
    (~last.prevented /\ ~isMobileMenuOpen)

(* C5: anchor dismissal.  Activating a link '#id' of the open panel closes *)
(* the menu whether or not the element exists; the element is scrolled     *)
(* into view if it exists and nothing is scrolled otherwise.               *)
C5_AnchorDismissal ==
  (last.ev = "mobileLink" /\ last.wasOpen /\ startsWithHash(last.href)) =>
    /\ ~isMobileMenuOpen
    /\ last.prevented
    /\ last.scrolled = IF substring1(last.href) \in DocIds
                       THEN <<substring1(last.href)>> ELSE <<>>

C5_Witness ==
  /\ last.ev = "mobileLink" /\ last.wasOpen
  /\ last.href = <<"#", "x">>
  /\ last.scrolled = <<>>
  /\ ~isMobileMenuOpen

(* C6: focus trap containment.  While the menu is open and only keys have  *)
(* been pressed since it opened, the focused element is one of the panel's *)
(* focusable descendants.                                                  *)
C6_FocusTrapContainment ==
  (isMobileMenuOpen /\ tabOnly) => activeElement \in PanelSet

C6_Witness ==
  /\ isMobileMenuOpen /\ tabOnly
  /\ last.ev = "keydown" /\ last.key = "Tab" /\ ~last.shift
  /\ last.wasFocus = Cta
  /\ activeElement = Close

(* C7: cyclic tab trap.  With the menu open, Tab on the last focusable     *)
(* element moves focus to the first and prevents the default action;       *)
(* Shift+Tab on the first moves focus to the last and prevents default.    *)
C7_CyclicTabTrap ==
  (last.ev = "keydown" /\ last.key = "Tab" /\ last.wasOpen) =>
    /\ (~last.shift /\ last.wasFocus = lastElementOf(FocusableElements(links)))
         => (activeElement = firstElementOf(FocusableElements(links))
             /\ last.prevented)
    /\ (last.shift /\ last.wasFocus = firstElementOf(FocusableElements(links)))
         => (activeElement = lastElementOf(FocusableElements(links))
             /\ last.prevented)

C7_Witness ==
  /\ last.ev = "keydown" /\ last.key = "Tab" /\ last.wasOpen
  /\ last.shift /\ last.wasFocus = Close
  /\ Len(links) = 2
  /\ activeElement = Cta /\ last.prevented

(* C8 (as stated): a second consecutive activation of the trigger leaves   *)
(* the menu as the first one did: open, with the scroll lock engaged.      *)
C8_OpenTwiceIsOpen ==
  ( /\ last.ev = "trigger"
    /\ (last.n = 2 /\ ~last.wasOpen) \/ (last.n = 1 /\ last.wasOpen) )
  => (isMobileMenuOpen /\ overflow = "hidden")

(* C8 (amended): the trigger toggles.  One activation from closed opens    *)
(* the menu with exactly one 'hidden' write; a second consecutive one      *)
(* closes it again with overflow '' and no further 'hidden' write; two     *)
(* activations in one batch leave the state as it was, with no write.      *)
C8_TriggerTwiceIsClosed ==
  last.ev = "trigger" =>
    /\ (last.n = 1 /\ ~last.wasOpen) =>
         (isMobileMenuOpen /\ overflow = "hidden" /\ last.locks = 1)
    /\ (last.n = 1 /\ last.wasOpen) =>
         (~isMobileMenuOpen /\ overflow = "" /\ last.locks = 0)
    /\ last.n = 2 =>
         (isMobileMenuOpen = last.wasOpen
          /\ last.locks = 0 /\ last.unlocks = 0)

C8_Witness ==
  /\ last.ev = "trigger" /\ last.n = 1 /\ last.wasOpen
  /\ toggles = 2
  /\ ~isMobileMenuOpen /\ overflow = ""

(* C9: idempotence of close.  closeMobileMenu on a closed menu leaves      *)
(* isMobileMenuOpen false, re-runs no effect and writes nothing to body    *)
(* overflow.                                                               *)
C9_CloseIdempotent ==
  (last.ev \in {"closeButton", "backdrop"} /\ ~last.wasOpen) =>
    /\ ~isMobileMenuOpen
    /\ ~last.effectsRan
    /\ last.locks = 0 /\ last.unlocks = 0
    /\ overflow = ""
    /\ listeners = <<EscapeListener(FALSE)>>

C9_Witness ==
  /\ last.ev = "closeButton" /\ ~last.wasOpen
  /\ ~isMobileMenuOpen /\ lockCalls = 1 /\ unlockCalls = 4

(* C10: toggleMobileMenu closes the open menu and opens the closed one;    *)
(* after n trigger activations from the closed state, batched or not, the  *)
(* menu is open exactly when n is odd.                                     *)
C10_ToggleParity ==
  /\ isMobileMenuOpen <=> (toggles % 2 = 1)
  /\ (last.ev = "trigger" /\ last.n = 1) =>
       (isMobileMenuOpen = ~last.wasOpen)

C10_Witness ==
  /\ last.ev = "trigger" /\ last.n = 2
  /\ toggles = 3
  /\ isMobileMenuOpen
(* C11 (as stated): in every Closed state the component has no keydown     *)
(* listener attached to the document.                                      *)
C11_NoListenerWhenClosed ==
  ~isMobileMenuOpen => listeners = <<>>

(* C11 (amended): handleTabKey is attached exactly while the menu is open; *)
(* handleEscape is attached in every state, closed ones included, where    *)
(* its closure holds isMobileMenuOpen = false and it does nothing.  Each   *)
(* commit replaces the handlers of the previous one.                       *)
C11_ListenerScoping ==
  /\ ~isMobileMenuOpen => listeners = <<EscapeListener(FALSE)>>
  /\ isMobileMenuOpen =>
       /\ Len(listeners) = 2
       /\ listeners[1] = EscapeListener(TRUE)
       /\ listeners[2].kind = "handleTabKey"

C11_Witness ==
  /\ ~isMobileMenuOpen /\ last.wasOpen /\ lockCalls = 2
  /\ listeners = <<EscapeListener(FALSE)>>
IsTab == last.ev = "keydown" /\ last.key = "Tab"

(* C12 (as stated): on the landing page, activating the trigger opens the  *)
(* menu with focus on the first link ('Services'), three Tab presses       *)
(* complete the cycle through the panel, and Escape then closes the menu,  *)
(* returns focus to the trigger and re-enables page scroll.                *)
C12_EndToEndServicesFirst ==
  /\ (last.ev = "trigger" /\ ~last.wasOpen /\ isMobileMenuOpen) =>
       activeElement = Link(1)
  /\ (isMobileMenuOpen /\ tabs = 3) => activeElement = Link(1)
  /\ (IsEscape /\ last.wasOpen) =>
       (~isMobileMenuOpen /\ overflow = ""
        /\ (triggerAttached => activeElement = Trigger))

(* C12 (amended): on the landing page, activating the trigger opens the    *)
(* menu with focus on the panel's close button, the first of its six       *)
(* focusable elements (close, four links, CTA); the k-th Tab press puts    *)
(* focus on element (k mod 6) + 1, so three presses reach the third link   *)
(* and six complete the cycle; Escape then closes the menu, returns focus  *)
(* to the trigger and re-enables page scroll.                              *)
C12_EndToEnd ==
  /\ Len(FocusableElements(links)) = 6
  /\ (last.ev = "trigger" /\ ~last.wasOpen /\ isMobileMenuOpen) =>
       activeElement = Close
  /\ (isMobileMenuOpen /\ tabs >= 0) =>
       activeElement = FocusableElements(links)[(tabs % 6) + 1]
  /\ (IsEscape /\ last.wasOpen) =>
       (~isMobileMenuOpen /\ overflow = ""
        /\ (triggerAttached => activeElement = Trigger))

C12_Witness ==
  /\ IsEscape /\ last.wasOpen
  /\ last.wasTabs = 3 /\ last.wasFocus = Link(3)
  /\ ~isMobileMenuOpen /\ activeElement = Trigger /\ overflow = ""

(* C13: every Closed -> Open transition moves focus to the first element,  *)
(* in DOM order, of the panel's focusable descendants at that open; with   *)
(* an empty set focus stays where the activation left it, on the trigger.  *)
C13_OpenFocusesFirst ==
  (isMobileMenuOpen /\ ~last.wasOpen) =>
    activeElement = IF panelEls # <<>> THEN panelEls[1] ELSE Trigger

C13_Witness ==
  /\ isMobileMenuOpen /\ ~last.wasOpen
  /\ panelEls # <<>> /\ panelEls[1] # Close
  /\ activeElement = panelEls[1]

(* C14: isMobileMenuOpen is false at mount; only an activation of the      *)
(* trigger opens the menu; from Open the trigger, the close button,        *)
(* Escape, the backdrop and a link of the panel each close it; other keys  *)
(* and Tab do not change isMobileMenuOpen.  (The claim's clause on desktop *)
(* controls is left out: the formula is a consequence of the claim.)       *)
C14_StateMachine ==
  /\ last.ev = "mount" => ~isMobileMenuOpen
  /\ (~last.wasOpen /\ isMobileMenuOpen) => last.ev = "trigger"
  /\ ( /\ last.wasOpen
       /\ \/ last.ev \in {"closeButton", "backdrop", "mobileLink"}
          \/ IsEscape
          \/ last.ev = "trigger" /\ last.n = 1 )
     => ~isMobileMenuOpen
  /\ (last.ev = "keydown" /\ ~IsEscape) => isMobileMenuOpen = last.wasOpen

(* C15: after the effects of every event, body overflow is 'hidden'        *)
(* exactly when isMobileMenuOpen is true.                                  *)
C15_ScrollLockTracksState ==
  (overflow = "hidden") <=> isMobileMenuOpen

C15_Witness ==
  /\ isMobileMenuOpen /\ overflow = "hidden"
  /\ ~last.wasOpen /\ lockCalls = 2

(* C16: with the analytics sink absent or throwing, a click on the panel's *)
(* CTA Button proceeds as with a working sink: no error escapes the        *)
(* handler, onClick is invoked in the same cases and the menu closes in    *)
(* the same cases.                                                         *)
C16_AnalyticsBestEffort ==
  (last.ev = "mobileCta" /\ last.sink \in {"absent", "throws"}) =>
    LET ok == handleClick(last.button[1], last.button[2], last.button[3],
                          last.button[4], "ok")
    IN /\ ~last.threw
       /\ last.called = ok.called
       /\ isMobileMenuOpen = (last.wasOpen /\ ~ok.called)

(* C17 (as stated): Escape on the open menu closes it and stops the        *)
(* propagation of the key event: no later listener observes it.            *)
C17_EscapeStopsPropagation ==
  (IsEscape /\ last.wasOpen) => (~isMobileMenuOpen /\ ~last.observed)

(* C17 (amended): Escape on the open menu closes it; the handler neither   *)
(* stops propagation nor prevents the default action, so listeners later   *)
(* in the propagation path still observe the event.                        *)
C17_EscapePropagates ==
  (IsEscape /\ last.wasOpen) =>
    (~isMobileMenuOpen /\ last.observed /\ ~last.prevented)

C17_Witness ==
  /\ IsEscape /\ last.wasOpen /\ last.wasFocus = Cta
  /\ ~isMobileMenuOpen /\ last.observed

(* C18: a Tab keydown on the open menu with focus not on the last element  *)
(* (no Shift) or not on the first (Shift) passes through: handleTabKey     *)
(* neither prevents the default nor moves focus, the browser's own focus   *)
(* step applies, and isMobileMenuOpen is unchanged.                        *)
C18_OtherTabsPassThrough ==
  ( /\ IsTab /\ last.wasOpen
    /\ ~(~last.shift /\ last.wasFocus = lastElementOf(panelEls))
    /\ ~(last.shift /\ last.wasFocus = firstElementOf(panelEls)) )
  => /\ ~last.prevented
     /\ last.handlerFocus = last.wasFocus
     /\ activeElement \in NativeTab(last.wasFocus, last.shift)
     /\ isMobileMenuOpen

C18_Witness ==
  /\ IsTab /\ last.wasOpen /\ ~last.shift
  /\ last.wasFocus = Close /\ activeElement = Link(1)
  /\ ~last.prevented /\ isMobileMenuOpen

(* C19: a panel without focusable descendants is tolerated: opening sets   *)
(* isMobileMenuOpen and locks scroll, moves focus nowhere and raises no    *)
(* error, and no Tab press on the open menu is intercepted.                *)
C19_EmptyFocusableSet ==
  panelEls = <<>> =>
    /\ (isMobileMenuOpen /\ ~last.wasOpen) =>
         (overflow = "hidden" /\ activeElement = Trigger /\ ~last.threw)
    /\ (IsTab /\ last.wasOpen) =>
         (~last.prevented /\ ~last.threw
          /\ last.handlerFocus = last.wasFocus /\ isMobileMenuOpen)

C19_Witness ==
  /\ panelEls = <<>> /\ isMobileMenuOpen
  /\ IsTab /\ last.wasOpen /\ last.wasFocus = Trigger
  /\ ~last.prevented

(* C20: with the trigger detached, closing the menu still completes:       *)
(* isMobileMenuOpen is false and overflow '', focus is not moved to the    *)
(* trigger (Escape leaves it where it was) and no error is raised.         *)
C20_DetachedTrigger ==
  /\ (IsEscape /\ last.wasOpen /\ ~triggerAttached) =>
       (~isMobileMenuOpen /\ activeElement = last.wasFocus)
  /\ (last.wasOpen /\ ~isMobileMenuOpen /\ ~triggerAttached) =>
       (overflow = "" /\ activeElement # Trigger /\ ~last.threw)

C20_Witness ==
  /\ IsEscape /\ last.wasOpen /\ ~triggerAttached
  /\ ~isMobileMenuOpen /\ overflow = "" /\ activeElement = Close

(* C21: the first and last elements the Tab trap uses are those of the     *)
(* panel's focusable descendants at the open that started the trap, at     *)
(* every open anew; a change of the panel while the menu is open does not  *)
(* change them.                                                            *)
C21_FocusableSetFixedAtOpen ==
  /\ (isMobileMenuOpen /\ ~last.wasOpen) => openEls = panelEls
  /\ (IsTab /\ last.wasOpen) =>
       LET edge == IF last.shift THEN firstElementOf(openEls)
                   ELSE lastElementOf(openEls)
           target == IF last.shift THEN lastElementOf(openEls)
                     ELSE firstElementOf(openEls)
       IN /\ last.prevented = (last.wasFocus = edge)
          /\ last.prevented =>
               activeElement = IF target \in SeqToSet(panelEls)
                               THEN target ELSE last.wasFocus

C21_Witness ==
  /\ IsTab /\ last.wasOpen /\ ~last.shift /\ last.prevented
  /\ lockCalls = 2
  /\ lastElementOf(panelEls) # lastElementOf(openEls)
  /\ activeElement = firstElementOf(openEls)
  /\ activeElement # last.wasFocus

C23_EveryCaughtErrorReported ==
  /\ Len(sentryReports) = Len(caughtErrors)
  /\ \A i \in 1..Len(sentryReports) :
       /\ i <= Len(caughtErrors)
       /\ sentryReports[i].error = caughtErrors[i]
       /\ sentryReports[i].componentStack = componentStack(caughtErrors[i])

(* C24: a click on the CTA Button of the open panel invokes the onClick    *)
(* wrapper (ctaButton.onClick, then closeMobileMenu) and leaves the menu   *)
(* closed, whatever ctaButton.href is.                                     *)
C24_MobileCtaCloses ==
  (last.ev = "mobileCta" /\ last.wasOpen /\ last.sink # "throws") =>
    (last.called /\ ~isMobileMenuOpen)

C26_UnmountLeavesPageClean ==
  ~mounted =>
    /\ overflow = ""
    /\ \A i \in 1..Len(listeners) :
         listeners[i].kind \notin {"handleEscape", "handleTabKey"}
    /\ last.ev = "unmount" /\ last.unlocks = 1

C26_Witness ==
  ~mounted /\ isMobileMenuOpen /\ last.wasOpen /\ lockCalls = 2

(* C27: the component never has more than two keydown handlers attached:   *)
(* one handleEscape in every state, one handleTabKey exactly while open;   *)
(* whenever the menu is closed the count is the one of the initial state.  *)
C27_NoListenerLeak ==
  LET count(kind) ==
        Cardinality({ i \in 1..Len(listeners) : listeners[i].kind = kind })
  IN /\ Len(listeners) <= 2
     /\ count("handleEscape") = 1
     /\ count("handleTabKey") = IF isMobileMenuOpen THEN 1 ELSE 0
     /\ ~isMobileMenuOpen => Len(listeners) = 1

C27_Witness ==
  /\ ~isMobileMenuOpen /\ last.wasOpen /\ last.effectsRan
  /\ lockCalls = 2 /\ toggles = 0
  /\ Len(listeners) = 1

(* C28: a click on a disabled Button pushes no analytics event and does    *)
(* not invoke onClick.                                                     *)
C28_DisabledClickInert ==
  (last.ev = "button" /\ last.button[1]) =>
    /\ last.pushed = 0 /\ last.events = <<>>
    /\ ~last.called
    /\ ~last.threw

C28_Witness ==
  /\ last.ev = "button" /\ last.button[1]
  /\ last.button[2] # "" /\ last.button[4] /\ ~last.button[5]
  /\ last.sink = "ok"

(* C29: the ErrorBoundary renders its children while hasError is false;    *)
(* after a caught error hasError is true, the error is stored and every    *)
(* render returns the fallback until handleReset; handleReset restores the *)
(* constructor's state and the children are rendered again.                *)
C29_BoundaryLifecycle ==
  /\ last.ev = "mount" => boundary = constructorState
  /\ ~boundary.hasError => rendered = <<"children", boundaryProps.children>>
  /\ boundary.hasError =>
       /\ caughtErrors # <<>>
       /\ boundary.error = caughtErrors[Len(caughtErrors)]
       /\ rendered = IF boundaryProps.fallback THEN <<"props.fallback">>
                     ELSE <<"Try Again">>
  /\ last.ev = "childThrows" => boundary.hasError
  /\ (last.wasError /\ last.ev # "handleReset") => boundary.hasError
  /\ last.ev = "handleReset" =>
       /\ boundary = constructorState
       /\ rendered = <<"children", boundaryProps.children>>

C29_Witness ==
  /\ last.ev = "handleReset" /\ last.wasError
  /\ Len(caughtErrors) = 2
  /\ rendered = <<"children", "section">>
====
